---- MODULE Spec2Model ----
(***************************************************************************)
(* Model of the certificate lifecycle manager `Mkcert`                     *)
(* (src/unnamed/part_000): binary acquisition and upgrade (init) and the   *)
(* certificate renewal decision (install / renew / regenerate).            *)
(*                                                                         *)
(* One orchestrator instance works on one save directory.  Its public      *)
(* operations init() and install(hosts) are awaited sequentially, so each  *)
(* is one action; what happened inside the call is kept in `call.log`, in  *)
(* program order.  External changes to the save directory happen between   *)
(* calls (actions Tamper, RemoveBinary and PlaceBinary).                   *)
(*                                                                         *)
(* Record, Config, VersionManger, Downloader, the sources and lib/util are *)
(* imported by the class but are not part of the source at hand; they are  *)
(* modelled from their documented contracts.                               *)
(***************************************************************************)
EXTENDS Integers, Sequences, FiniteSets, TLC

\* ------------------------------------------------------------------ bounds

\* The external tool writes fresh file contents 1..MaxGen, one per run.
MaxGen == 2

\* ------------------------------------------------------------ value spaces

\* Content of a file that does not exist (readFile yields nothing).
NoFile == 0

\* A version string "major.minor", parsed into its numeric components.
Versions == {<<1, 0>>, <<1, 1>>, <<2, 0>>}

\* Config holds no version yet / the managed binary file does not exist /
\* the source has no asset for this platform.
NoVersion == <<>>
NoBinaryFile == <<>>
NoInfo == <<>>

\* getMkcertBinary() returned undefined.
NoBinary == "undefined"

NoErr == "none"

HostNames == {"a", "b"}

\* The ordered host lists install() is called with: no host, one, or two
\* in either order.
HostLists ==
  {<<>>} \cup {<<x>> : x \in HostNames}
         \cup {h \in HostNames \X HostNames : h[1] # h[2]}

Range(s) == {s[i] : i \in 1..Len(s)}

SourceTypes == {"github", "coding", "local", "custom"}

\* What the awaited collaborators do in one call:
\*   src    the SourceInfo the source returns (its version), or NoInfo
\*   dl     the download: done, or failed leaving the old file / no file
\*   caroot what `mkcert -CAROOT` does: fails, or prints a directory
\*   tool   what `mkcert -install ...` does
SourceResults == Versions \cup {NoInfo}
DownloadResults == {"ok", "fail_keep", "fail_delete"}
CarootResults == {"fail", "save", "missing", "other", "other_empty"}
ToolResults == {"ok", "fail", "partial"}

Oracle(src, dl, caroot, tool) ==
  [src |-> src, dl |-> dl, caroot |-> caroot, tool |-> tool]

\* ------------------------------------------------------------------- state

VARIABLES
  force,        \* options.force
  autoUpgrade,  \* options.autoUpgrade
  sourceType,   \* options.source, 'custom' for a BaseSource object
  localMkcert,  \* options.mkcertPath: "unset", or set to a file that "exists" / is "missing"
  savedMkcert,  \* the managed binary file: the version downloaded, or NoBinaryFile
  keyFile,      \* content of keyFilePath
  certFile,     \* content of certFilePath
  hasRootCA,    \* the save directory holds a file whose name includes 'rootCA'
  version,      \* Config: the recorded tool version
  record,       \* Config: the certificate record {hosts, hash}
  gen,          \* the last file content minted
  call,         \* the last call: operation, arguments, outcome, log
  pre,          \* the persistent state when the last call began
  prevCall      \* summary of the action before the last one

vars ==
  <<force, autoUpgrade, sourceType, localMkcert, savedMkcert, keyFile, certFile,
    hasRootCA, version, record, gen, call, pre, prevCall>>

\* The certificate record before anything was recorded.
EmptyRecord == [hosts |-> <<>>, hash |-> [key |-> <<>>, cert |-> <<>>]]

\* The state a call works on, threaded through the operators below.
Machine ==
  [saved |-> savedMkcert, key |-> keyFile, cert |-> certFile, hasCA |-> hasRootCA,
   version |-> version, record |-> record, gen |-> gen,
   log |-> <<>>, err |-> NoErr]

Snapshot(m) ==
  [saved |-> m.saved, key |-> m.key, cert |-> m.cert, hasCA |-> m.hasCA,
   version |-> m.version, record |-> m.record]

Log(m, e) == [m EXCEPT !.log = Append(@, e)]

Throw(m, e) == [m EXCEPT !.err = e]

\* ------------------------------------------- collaborators (from contracts)

\* lib/util getHash: the content hash of a file; contents hash apart, and a
\* missing file hashes to no content hash.
getHash(content) ==
  IF content = NoFile THEN <<"sha256">> ELSE <<"sha256", content>>

\* Record.contains: the recorded host set is exactly the requested set.
contains(rec, hosts) ==
  /\ rec.hosts # <<>>
  /\ Range(rec.hosts) = Range(hosts)

\* Record.equal: both recorded hashes match the given ones.
equal(rec, hash) ==
  /\ rec.hash.key = hash.key
  /\ rec.hash.cert = hash.cert

\* Record.update: merge and persist.
RecordUpdate(m, hosts, hash) ==
  Log([m EXCEPT !.record = [hosts |-> hosts, hash |-> hash]], "record.update")

\* VersionManger.compare: shouldUpdate iff latest > current, breakingChange iff
\* the major components differ; no recorded version is older than anything.
Newer(a, b) == a[1] > b[1] \/ (a[1] = b[1] /\ a[2] > b[2])

compare(current, latest) ==
  IF current = NoVersion
  THEN [currentVersion |-> current, nextVersion |-> latest,
        shouldUpdate |-> TRUE, breakingChange |-> FALSE]
  ELSE [currentVersion |-> current, nextVersion |-> latest,
        shouldUpdate |-> Newer(latest, current),
        breakingChange |-> latest[1] # current[1]]

\* VersionManger.update: persist the version into Config.
VersionUpdate(m, v) == Log([m EXCEPT !.version = v], "version.update")

\* Downloader.download to the managed path: the binary is in place, or the
\* call fails and leaves no usable partial file (the old file, or none).
download(m, o) ==
  CASE o.dl = "ok" ->
         Log([m EXCEPT !.saved = o.src], "download.ok")
    [] o.dl = "fail_keep" ->
         Throw(Log(m, "download.fail"), "download")
    [] OTHER ->
         Throw(Log([m EXCEPT !.saved = NoBinaryFile], "download.fail"), "download")

\* ------------------------------------------------------- certificate side

\* Mkcert.getMkcertBinary
getMkcertBinary(m) ==
  IF localMkcert # "unset"
  THEN IF localMkcert = "exists" THEN "localMkcert" ELSE NoBinary
  ELSE IF m.saved # NoBinaryFile THEN "savedMkcert" ELSE NoBinary

\* Mkcert.checkCAExists
checkCAExists(m) == m.hasCA

\* The directory `mkcert -CAROOT` printed, as it stands to the save directory:
\* the save directory itself, a directory that does not exist, or another
\* directory that exists, with or without a rootCA file in it.
caDirPath(o) ==
  CASE o.caroot = "save" -> "caDirPath = savePath"
    [] o.caroot = "missing" -> "caDirPath does not exist"
    [] o.caroot = "other" -> "caDirPath exists, holds rootCA"
    [] OTHER -> "caDirPath exists, holds no rootCA"

\* retainExistedCA that copies without comparing the directory with savePath.
retainExistedCA_NoSameDirCheck(m, o) ==
  IF checkCAExists(m) THEN m
  ELSE IF getMkcertBinary(m) = NoBinary \/ o.caroot = "fail"
  THEN Throw(Log(m, "exec.CAROOT.fail"), "exec -CAROOT")
  ELSE LET m1 == Log(Log(m, "exec.CAROOT.ok"), caDirPath(o)) IN
       IF o.caroot = "missing" THEN m1
       ELSE Log([m1 EXCEPT !.hasCA = (o.caroot = "other")], "copyDir")

\* Mkcert.retainExistedCA.  `undefined -CAROOT` cannot be executed.
retainExistedCA(m, o) ==
  IF checkCAExists(m) THEN m
  ELSE IF getMkcertBinary(m) = NoBinary \/ o.caroot = "fail"
  THEN Throw(Log(m, "exec.CAROOT.fail"), "exec -CAROOT")
  ELSE LET m1 == Log(Log(m, "exec.CAROOT.ok"), caDirPath(o)) IN
       IF o.caroot = "save" THEN m1
       ELSE IF o.caroot = "missing" THEN m1
       ELSE Log([m1 EXCEPT !.hasCA = (o.caroot = "other")], "copyDir")

\* Mkcert.getCertificate
getCertificate(m) == [key |-> m.key, cert |-> m.cert]

\* createCertificate that gives up when no binary resolves.
createCertificate_StopWithoutBinary(m, hosts, o) ==
  IF getMkcertBinary(m) = NoBinary THEN Throw(m, "Mkcert does not exist")
  ELSE LET m1 == retainExistedCA(m, o) IN
       IF m1.err # NoErr THEN m1
       ELSE IF o.tool = "fail"
       THEN Throw(Log(m1, "exec.install.fail"), "exec -install")
       ELSE IF o.tool = "partial"
       THEN Throw(Log([m1 EXCEPT !.key = m1.gen + 1, !.gen = m1.gen + 1],
                      "exec.install.fail"), "exec -install")
       ELSE Log([m1 EXCEPT !.key = m1.gen + 1, !.cert = m1.gen + 1,
                           !.gen = m1.gen + 1, !.hasCA = TRUE],
                "exec.install.ok")

\* Mkcert.createCertificate.  On success the tool writes a new key and a new
\* certificate and installs its CA into CAROOT, the save directory; it may
\* also fail outright, or fail after having written the key file only.
createCertificate(m, hosts, o) ==
  LET m1 == retainExistedCA(m, o) IN
  IF m1.err # NoErr THEN m1
  ELSE IF getMkcertBinary(m1) = NoBinary \/ o.tool = "fail"
  THEN Throw(Log(m1, "exec.install.fail"), "exec -install")
  ELSE IF o.tool = "partial"
  THEN Throw(Log([m1 EXCEPT !.key = m1.gen + 1, !.gen = m1.gen + 1],
                 "exec.install.fail"), "exec -install")
  ELSE Log([m1 EXCEPT !.key = m1.gen + 1, !.cert = m1.gen + 1,
                      !.gen = m1.gen + 1, !.hasCA = TRUE],
           "exec.install.ok")

\* Mkcert.getLatestHash
getLatestHash(m) == [key |-> getHash(m.key), cert |-> getHash(m.cert)]

\* regenerate that forgets to update the record.
regenerate_NoUpdate(m, hosts, o) ==
  createCertificate(Log(m, "regenerate"), hosts, o)

\* regenerate that updates the record before the tool has run.
regenerate_UpdateFirst(m, hosts, o) ==
  LET m1 == RecordUpdate(Log(m, "regenerate"), hosts, getLatestHash(m)) IN
  createCertificate(m1, hosts, o)

\* regenerate that records the hashes taken before the tool ran.
regenerate_StaleHash(m, hosts, o) ==
  LET m1 == createCertificate(Log(m, "regenerate"), hosts, o) IN
  IF m1.err # NoErr THEN m1
  ELSE RecordUpdate(m1, hosts, getLatestHash(m))

\* Mkcert.regenerate
regenerate(m, hosts, o) ==
  LET m1 == createCertificate(Log(m, "regenerate"), hosts, o) IN
  IF m1.err # NoErr THEN m1
  ELSE RecordUpdate(m1, hosts, getLatestHash(m1))

\* renew without the host-set guard.
renew_NoHostCheck(m, hosts, o) ==
  LET m1 == IF force THEN regenerate(Log(m, "force"), hosts, o) ELSE m IN
  IF m1.err # NoErr THEN m1
  ELSE LET m3 == Log(m1, "record.equal") IN
       IF ~equal(m3.record, getLatestHash(m3)) THEN regenerate(m3, hosts, o)
       ELSE Log(m3, "skip")

\* renew without the hash guard.
renew_NoHashCheck(m, hosts, o) ==
  LET m1 == IF force THEN regenerate(Log(m, "force"), hosts, o) ELSE m IN
  IF m1.err # NoErr THEN m1
  ELSE LET m2 == Log(m1, "record.contains") IN
       IF ~contains(m2.record, hosts) THEN regenerate(m2, hosts, o)
       ELSE Log(m2, "skip")

\* renew that ignores the force option.
renew_IgnoreForce(m, hosts, o) ==
  LET m2 == Log(m, "record.contains") IN
  IF ~contains(m2.record, hosts) THEN regenerate(m2, hosts, o)
  ELSE LET m3 == Log(m2, "record.equal") IN
       IF ~equal(m3.record, getLatestHash(m3)) THEN regenerate(m3, hosts, o)
       ELSE Log(m3, "skip")

\* Mkcert.renew.  The force branch does not return: the two guards after it
\* are evaluated on the record it has just updated.
renew(m, hosts, o) ==
  LET m1 == IF force THEN regenerate(Log(m, "force"), hosts, o) ELSE m IN
  IF m1.err # NoErr THEN m1
  ELSE LET m2 == Log(m1, "record.contains") IN
       IF ~contains(m2.record, hosts) THEN regenerate(m2, hosts, o)
       ELSE LET m3 == Log(m2, "record.equal") IN
            IF ~equal(m3.record, getLatestHash(m3)) THEN regenerate(m3, hosts, o)
            ELSE Log(m3, "skip")

\* install that renews whatever the host list.
install_AlwaysRenew(m, hosts, o) ==
  LET m1 == renew(m, hosts, o) IN
  IF m1.err # NoErr THEN m1 ELSE Log(m1, "getCertificate")

\* Mkcert.install
install(m, hosts, o) ==
  LET m1 == IF Len(hosts) # 0 THEN renew(m, hosts, o) ELSE m IN
  IF m1.err # NoErr THEN m1 ELSE Log(m1, "getCertificate")

\* ------------------------------------------------------------- binary side

\* getSourceInfo that hands a missing result on to its caller.
getSourceInfo_NoThrow(m, o) == Log(m, "source.getSourceInfo")

\* Mkcert.getSourceInfo: throws when the source has nothing for the platform;
\* the message names process.platform and process.arch for the built-in
\* sources and not for a custom one.
getSourceInfo(m, o) ==
  LET m1 == Log(m, "source.getSourceInfo") IN
  IF o.src = NoInfo
  THEN Throw(m1, IF sourceType # "custom" THEN "Unsupported platform"
                 ELSE "invalid custom source")
  ELSE m1

\* downloadMkcert that swallows a failed download.
downloadMkcert_SwallowError(m, o) == [download(m, o) EXCEPT !.err = NoErr]

\* Mkcert.downloadMkcert
downloadMkcert(m, o) == download(m, o)

\* initMkcert that downloads whatever the source type.
initMkcert_DownloadAlways(m, o) ==
  LET m1 == getSourceInfo(m, o) IN
  IF m1.err # NoErr THEN m1 ELSE downloadMkcert(m1, o)

\* Mkcert.initMkcert
initMkcert(m, o) ==
  LET m1 == getSourceInfo(m, o) IN
  IF m1.err # NoErr THEN m1
  ELSE IF sourceType # "local" THEN downloadMkcert(m1, o)
  ELSE m1

\* Mkcert.upgradeMkcert
upgradeMkcert(m, o) ==
  LET m1 == getSourceInfo(m, o) IN
  IF m1.err # NoErr THEN m1
  ELSE LET versionInfo == compare(m1.version, o.src) IN
       IF ~versionInfo.shouldUpdate THEN m1
       ELSE IF versionInfo.breakingChange THEN m1
       ELSE LET m2 == IF sourceType # "local" THEN downloadMkcert(m1, o) ELSE m1 IN
            IF m2.err # NoErr THEN m2
            ELSE VersionUpdate(m2, versionInfo.nextVersion)

\* init that runs the upgrade flow whenever a binary is found.
init_UpgradeAlways(m, o) ==
  IF getMkcertBinary(m) = NoBinary THEN initMkcert(m, o)
  ELSE upgradeMkcert(m, o)

\* Mkcert.init
init(m, o) ==
  IF getMkcertBinary(m) = NoBinary THEN initMkcert(m, o)
  ELSE IF autoUpgrade THEN upgradeMkcert(m, o)
  ELSE m

\* ----------------------------------------------------------------- actions

Count(log, e) == Cardinality({i \in 1..Len(log) : log[i] = e})

\* A file content no run of the tool produces: the result of an external edit.
Edited == MaxGen + 1

NoCall ==
  [op |-> "none", hosts |-> <<>>, src |-> NoInfo, res |-> NoErr, log |-> <<>>,
   ret |-> [key |-> NoFile, cert |-> NoFile]]

\* What is remembered of the action before the last one: a call that
\* returned normally, with its arguments and what it invoked; anything else
\* (a failed call, an external change, nothing yet) is "other".
Summary(c) ==
  IF c.op \in {"init", "install"} /\ c.res = NoErr
  THEN [op |-> c.op, hosts |-> c.hosts, src |-> c.src,
        execs |-> Count(c.log, "exec.install.ok"),
        downloads |-> Count(c.log, "download.ok")]
  ELSE [op |-> "other", hosts |-> <<>>, src |-> NoInfo, execs |-> 0, downloads |-> 0]

\* A save directory nothing has been written to.
Fresh ==
  /\ keyFile = NoFile
  /\ certFile = NoFile
  /\ hasRootCA = FALSE
  /\ version = NoVersion
  /\ record = EmptyRecord
  /\ gen = 0
  /\ call = NoCall
  /\ pre = Snapshot(Machine)
  /\ prevCall = Summary(NoCall)

\* Mkcert.constructor, certificate side: any force and mkcertPath, the managed
\* binary left (or not) by an earlier init(); the options install() never
\* reads are at their defaults.
InitCert ==
  /\ force \in BOOLEAN
  /\ autoUpgrade = FALSE
  /\ sourceType = "github"
  /\ localMkcert \in {"unset", "exists", "missing"}
  /\ savedMkcert \in {NoBinaryFile, <<1, 0>>}
  /\ Fresh

\* Mkcert.constructor, binary side: every combination of the options init()
\* reads, on a fresh save directory.
InitBinary ==
  /\ force = FALSE
  /\ autoUpgrade \in BOOLEAN
  /\ sourceType \in SourceTypes
  /\ localMkcert \in {"unset", "exists", "missing"}
  /\ savedMkcert = NoBinaryFile
  /\ Fresh

\* The persistent state and the bookkeeping after a call that ended in m.
Commit(op, hosts, src, m) ==
  /\ m.gen <= MaxGen
  /\ savedMkcert' = m.saved
  /\ keyFile' = m.key
  /\ certFile' = m.cert
  /\ hasRootCA' = m.hasCA
  /\ version' = m.version
  /\ record' = m.record
  /\ gen' = m.gen
  /\ call' = [op |-> op, hosts |-> hosts, src |-> src, res |-> m.err, log |-> m.log,
              ret |-> IF m.err = NoErr /\ op = "install" THEN getCertificate(m)
                      ELSE NoCall.ret]
  /\ pre' = Snapshot(Machine)
  /\ prevCall' = Summary(call)
  /\ UNCHANGED <<force, autoUpgrade, sourceType, localMkcert>>

\* What this.source.getSourceInfo() can return: a SourceInfo or nothing; the
\* local source always returns one (fetching is not applicable, it never
\* reports an unsupported platform).
SourceReturns == IF sourceType = "local" THEN Versions ELSE SourceResults

\* await mkcert.init()
CallInit ==
  \E src \in SourceReturns, dl \in DownloadResults :
    LET o == Oracle(src, dl, "save", "ok") IN
    Commit("init", <<>>, src, init(Machine, o))

\* await mkcert.install(hosts)
CallInstall ==
  \E hosts \in HostLists, caroot \in CarootResults, tool \in ToolResults :
    LET o == Oracle(NoInfo, "ok", caroot, tool) IN
    Commit("install", hosts, NoInfo, install(Machine, hosts, o))

\* Between calls the key or the certificate file is edited or removed.
Tamper ==
  \E f \in {"key", "cert"}, c \in {NoFile, Edited} :
    /\ c # Machine[f]
    /\ Commit("tamper", <<>>, NoInfo, [Machine EXCEPT ![f] = c])

\* Between calls a binary is put at, or removed from, the managed path.
PlaceBinary ==
  \E b \in Versions \cup {NoBinaryFile} :
    /\ b # savedMkcert
    /\ Commit("place", <<>>, NoInfo, [Machine EXCEPT !.saved = b])

\* Between calls the managed binary is removed.
RemoveBinary ==
  /\ savedMkcert # NoBinaryFile
  /\ Commit("remove", <<>>, NoInfo, [Machine EXCEPT !.saved = NoBinaryFile])

NextCert == CallInstall \/ Tamper \/ RemoveBinary

SpecCert == InitCert /\ [][NextCert]_vars

NextBinary == CallInit \/ PlaceBinary

SpecInit == InitBinary /\ [][NextBinary]_vars

\* ------------------------------------------------ properties: certificate

Has(log, e) == Count(log, e) > 0

\* -install invocations of a call, succeeded or failed.
Execs(log) == Count(log, "exec.install.ok") + Count(log, "exec.install.fail")

\* Any invocation of the external tool.
ToolRuns(log) ==
  Execs(log) + Count(log, "exec.CAROOT.ok") + Count(log, "exec.CAROOT.fail")

\* The last call was install(hosts) with hosts non-empty, that is renew(hosts).
IsRenew == call.op = "install" /\ call.hosts # <<>>

\* The last two actions were renew calls for the same host set, the first of
\* which returned normally, with nothing happening in between.
TwiceSameHosts ==
  /\ ~force
  /\ prevCall.op = "install" /\ prevCall.hosts # <<>>
  /\ IsRenew
  /\ Range(prevCall.hosts) = Range(call.hosts)

\* The record and the files did not call for a regeneration when the last
\* call began.
ValidBefore ==
  /\ contains(pre.record, call.hosts)
  /\ equal(pre.record, getLatestHash(pre))

\* C1 as stated: without force, two successive renew(H) calls with nothing
\* in between invoke -install exactly once in total, and the second one
\* invokes nothing and leaves the record alone.
C1_Original ==
  TwiceSameHosts =>
    /\ prevCall.execs + Execs(call.log) = 1
    /\ ToolRuns(call.log) = 0
    /\ record = pre.record

\* C1 as amended: without force, the second of two successive renew(H) calls
\* is a no-op (no tool invocation, no record update, normal return), and the
\* two calls invoke -install at most once in total; a renew call that
\* returns normally has invoked -install once if the record or the hashes
\* did not match when it began, and not at all if they did.
C1_SecondRenewIsNoOp ==
  /\ TwiceSameHosts =>
       /\ ToolRuns(call.log) = 0
       /\ ~Has(call.log, "record.update")
       /\ record = pre.record
       /\ call.res = NoErr
       /\ Has(call.log, "skip")
       /\ prevCall.execs + Execs(call.log) <= 1
  /\ (~force /\ IsRenew /\ call.res = NoErr) =>
       Execs(call.log) = IF ValidBefore THEN 0 ELSE 1

C1_Witness ==
  /\ TwiceSameHosts
  /\ prevCall.execs = 1
  /\ prevCall.hosts # call.hosts
  /\ Has(call.log, "skip")

\* C2: renew(H2) on a record left by a successful renew(H1), H1 # H2 as
\* sets, regenerates; when it returns normally the tool has run for H2 and
\* the record's host set is H2.  (A successful renew(H1) leaves the record's
\* host set at H1.)
C2_HostChangeRegenerates ==
  /\ (prevCall.op = "install" /\ prevCall.hosts # <<>>) =>
       Range(pre.record.hosts) = Range(prevCall.hosts)
  /\ (IsRenew /\ pre.record.hosts # <<>>
        /\ Range(pre.record.hosts) # Range(call.hosts)) =>
       /\ Has(call.log, "regenerate")
       /\ call.res = NoErr =>
            /\ Count(call.log, "exec.install.ok") = 1
            /\ Range(record.hosts) = Range(call.hosts)

C2_Witness ==
  /\ IsRenew
  /\ prevCall.op = "install" /\ prevCall.hosts = <<"a">>
  /\ call.hosts = <<"b", "a">>
  /\ call.res = NoErr
  /\ record.hosts = <<"b", "a">>

\* C3: when the record holds the requested host set but the hash of the key
\* or of the certificate file no longer equals the recorded one (the file
\* was edited or removed), renew regenerates; when it returns normally the
\* recorded hashes equal the hashes of the files on disk.
C3_TamperRegenerates ==
  (IsRenew /\ contains(pre.record, call.hosts)
     /\ ~equal(pre.record, getLatestHash(pre))) =>
    /\ Has(call.log, "regenerate")
    /\ call.res = NoErr =>
         /\ Count(call.log, "exec.install.ok") = 1
         /\ equal(record, getLatestHash(Machine))

C3_Witness ==
  /\ IsRenew /\ ~force
  /\ contains(pre.record, call.hosts)
  /\ pre.cert = Edited
  /\ getHash(pre.key) = pre.record.hash.key
  /\ call.res = NoErr
  /\ equal(record, getLatestHash(Machine))

\* C4: with force set every renew regenerates first, whatever the record
\* and the files; when it returns normally the tool has written a new
\* certificate.
C4_ForceRegenerates ==
  (IsRenew /\ force) =>
    /\ Len(call.log) >= 2
    /\ call.log[1] = "force" /\ call.log[2] = "regenerate"
    /\ call.res = NoErr =>
         /\ Count(call.log, "exec.install.ok") = 1
         /\ keyFile # pre.key /\ certFile # pre.cert

C4_Witness ==
  /\ IsRenew /\ force
  /\ ValidBefore
  /\ call.res = NoErr

\* C5: within a call the record is updated only right after a successful
\* -install; a failed tool invocation ends the call with its error, and a
\* call that ends with an error leaves the record as it was.
C5_RecordOnlyAfterToolSuccess ==
  call.op = "install" =>
    /\ \A i \in 1..Len(call.log) :
         call.log[i] = "record.update" =>
           i > 1 /\ call.log[i - 1] = "exec.install.ok"
    /\ Has(call.log, "exec.install.fail") => call.res = "exec -install"
    /\ Has(call.log, "exec.CAROOT.fail") => call.res = "exec -CAROOT"
    /\ call.res # NoErr => record = pre.record

C5_Witness ==
  /\ IsRenew
  /\ call.res = "exec -install"
  /\ pre.record # EmptyRecord
  /\ keyFile # pre.key
  /\ record = pre.record

\* C6: install(<<>>) invokes nothing and changes nothing and returns the
\* key and certificate contents on disk; install(hosts) with hosts non-empty
\* runs renew(hosts) first and, when that returns normally, returns the
\* contents then on disk.
C6_InstallEmptyHosts ==
  call.op = "install" =>
    /\ call.hosts = <<>> =>
         /\ call.log = <<"getCertificate">>
         /\ call.res = NoErr
         /\ Snapshot(Machine) = pre
         /\ call.ret = [key |-> pre.key, cert |-> pre.cert]
    /\ call.hosts # <<>> =>
         /\ call.log[1] \in {"force", "record.contains"}
         /\ call.res = NoErr =>
              /\ call.log[Len(call.log)] = "getCertificate"
              /\ Count(call.log, "getCertificate") = 1
              /\ call.ret = [key |-> keyFile, cert |-> certFile]

C6_Witness ==
  /\ call.op = "install" /\ call.hosts = <<>>
  /\ record.hosts # <<>>
  /\ call.ret.key # NoFile
  /\ call.ret.cert = Edited

\* ----------------------------------------------------- properties: binary

\* init() consults the Source Provider: no binary resolved, or auto-upgrade
\* is enabled.
ConsultsSource == getMkcertBinary(pre) = NoBinary \/ autoUpgrade

\* init() found a binary and ran the upgrade flow as far as the comparison.
UpgradeFlow ==
  /\ call.op = "init"
  /\ getMkcertBinary(pre) # NoBinary
  /\ autoUpgrade
  /\ call.src # NoInfo

Downloads(log) == Count(log, "download.ok") + Count(log, "download.fail")

\* C7 as stated: with a source that returns nothing for the platform,
\* init() fails with the error that names the platform and architecture.
C7_Original ==
  (call.op = "init" /\ call.src = NoInfo) => call.res = "Unsupported platform"

\* C7 as amended: with a source that returns nothing, init() fails, changing
\* nothing, whenever it consults the source (no binary resolves, or one
\* resolves and auto-upgrade is enabled): with the platform-naming error for
\* a built-in source, with the invalid-custom-source error for a custom one.
\* When a binary resolves and auto-upgrade is off, init() returns normally
\* without consulting the source.
C7_NullSourceFailsWhenConsulted ==
  (call.op = "init" /\ call.src = NoInfo) =>
    /\ ConsultsSource =>
         /\ call.res = IF sourceType = "custom" THEN "invalid custom source"
                       ELSE "Unsupported platform"
         /\ call.log = <<"source.getSourceInfo">>
         /\ Snapshot(Machine) = pre
    /\ ~ConsultsSource =>
         /\ call.res = NoErr
         /\ call.log = <<>>

C7_Witness ==
  /\ call.op = "init" /\ call.src = NoInfo
  /\ sourceType = "github"
  /\ getMkcertBinary(pre) # NoBinary /\ autoUpgrade
  /\ call.res = "Unsupported platform"

\* C8: a second init() right after one that returned normally, with the same
\* source result, downloads nothing and leaves the managed binary and the
\* recorded version as they were.
C8_InitIdempotent ==
  (call.op = "init" /\ prevCall.op = "init" /\ call.src = prevCall.src) =>
    /\ Downloads(call.log) = 0
    /\ savedMkcert = pre.saved
    /\ version = pre.version

\* C9: in the upgrade flow nothing is downloaded and the recorded version
\* stays when the tool is up to date or the jump is a breaking one; in every
\* other case, when init() returns normally, the binary of the latest version
\* has been downloaded to the managed path and the recorded version is the
\* latest version.
C9_UpgradeDecision ==
  UpgradeFlow =>
    LET versionInfo == compare(pre.version, call.src) IN
    IF ~versionInfo.shouldUpdate \/ versionInfo.breakingChange
    THEN /\ Downloads(call.log) = 0
         /\ version = pre.version
         /\ savedMkcert = pre.saved
    ELSE call.res = NoErr =>
           /\ Count(call.log, "download.ok") = 1
           /\ savedMkcert = call.src
           /\ version = call.src

\* C10: in a run of init() every write of a version to Config comes right
\* after a successful download to the managed path, of that version.
C10_VersionOnlyAfterDownload ==
  call.op = "init" =>
    \A i \in 1..Len(call.log) :
      call.log[i] = "version.update" =>
        /\ i > 1 /\ call.log[i - 1] = "download.ok"
        /\ savedMkcert = version

\* ------------------------------------------ properties: CA reconciliation

\* The directory the -CAROOT query of the last call reported is one the code
\* copies from: it is not the save directory and it exists.
CopyableCaDir ==
  \/ Has(call.log, "caDirPath exists, holds rootCA")
  \/ Has(call.log, "caDirPath exists, holds no rootCA")

\* C11: in a call that regenerates, nothing is copied into the save
\* directory when it already held a rootCA file (the tool is then not asked
\* for its CAROOT), when the reported CAROOT is the save directory, or when
\* the reported CAROOT does not exist; when the tool reports any other
\* directory its contents are copied, once, right after the query.
C11_RetainExistedCA ==
  (call.op = "install" /\ Has(call.log, "regenerate")) =>
    /\ pre.hasCA =>
         /\ Count(call.log, "exec.CAROOT.ok") + Count(call.log, "exec.CAROOT.fail") = 0
         /\ ~Has(call.log, "copyDir")
    /\ Has(call.log, "caDirPath = savePath") => ~Has(call.log, "copyDir")
    /\ Has(call.log, "caDirPath does not exist") => ~Has(call.log, "copyDir")
    /\ (~pre.hasCA /\ CopyableCaDir) => Count(call.log, "copyDir") = 1
    /\ \A i \in 1..Len(call.log) :
         call.log[i] = "copyDir" =>
           /\ ~pre.hasCA
           /\ i > 2 /\ call.log[i - 2] = "exec.CAROOT.ok"
           /\ call.log[i - 1] \in {"caDirPath exists, holds rootCA",
                                   "caDirPath exists, holds no rootCA"}
    /\ (~Has(call.log, "copyDir") /\ ~Has(call.log, "exec.install.ok")) =>
         hasRootCA = pre.hasCA

C11_Witness ==
  /\ call.op = "install"
  /\ ~pre.hasCA
  /\ Has(call.log, "caDirPath exists, holds rootCA")
  /\ Has(call.log, "copyDir")
  /\ call.res = "exec -install"
  /\ hasRootCA

\* ----------------------------------------------- properties: renew cascade

Guards == {"force", "record.contains", "record.equal"}

\* C12: in one renew call -install is invoked at most once and the record
\* is updated at most once, the guards are evaluated in the order force,
\* host set, hashes, and no guard is evaluated after a regeneration.
C12_FirstMatchWins ==
  IsRenew =>
    /\ Execs(call.log) <= 1
    /\ Count(call.log, "record.update") <= 1
    /\ Count(call.log, "regenerate") <= 1
    /\ \A i \in 1..Len(call.log), j \in 1..Len(call.log) :
         (i < j /\ call.log[i] = "record.equal") => call.log[j] # "record.contains"
    /\ \A i \in 1..Len(call.log), j \in 1..Len(call.log) :
         (i < j /\ call.log[i] = "regenerate") => call.log[j] \notin Guards

\* C16 as stated: when no binary resolves, regenerate still reaches the
\* -install invocation and the call fails with the failure of that
\* invocation, with or without a rootCA file in the save directory.
C16_Original ==
  (IsRenew /\ Has(call.log, "regenerate") /\ getMkcertBinary(pre) = NoBinary) =>
    /\ Execs(call.log) = 1
    /\ call.res = "exec -install"

\* C16 as amended: when no binary resolves, regenerate proceeds to its next
\* invocation of the external tool and the call fails with the failure of
\* that invocation, leaving the record as it was: the -install invocation
\* when the save directory holds a rootCA file, the -CAROOT query of the CA
\* reconciliation when it holds none (-install is then never reached).
C16_NoBinaryFailsAtNextToolRun ==
  (IsRenew /\ Has(call.log, "regenerate") /\ getMkcertBinary(pre) = NoBinary) =>
    /\ record = pre.record
    /\ ~Has(call.log, "getCertificate")
    /\ IF pre.hasCA
       THEN /\ call.res = "exec -install"
            /\ Execs(call.log) = 1
            /\ ToolRuns(call.log) = 1
       ELSE /\ call.res = "exec -CAROOT"
            /\ Execs(call.log) = 0
            /\ Count(call.log, "exec.CAROOT.fail") = 1

C16_Witness ==
  /\ IsRenew
  /\ getMkcertBinary(pre) = NoBinary
  /\ pre.hasCA
  /\ pre.record.hosts # <<>>
  /\ call.res = "exec -install"

\* C18: when renew(hosts) returns normally, by whichever branch, the
\* record's host set is the requested one and the recorded hashes are the
\* hashes of the key and certificate files on disk.
C18_CertificateValidAfterRenew ==
  (IsRenew /\ call.res = NoErr) =>
    /\ contains(record, call.hosts)
    /\ equal(record, getLatestHash(Machine))
    /\ keyFile # NoFile /\ certFile # NoFile

C18_Witness ==
  /\ IsRenew /\ call.res = NoErr
  /\ Has(call.log, "regenerate")
  /\ pre.record.hosts # <<>>
  /\ pre.key = Edited
  /\ equal(record, getLatestHash(Machine))

\* -------------------------------------------- properties: binary, continued

\* The state init() leaves alone when it does nothing.
BinaryUntouched ==
  /\ Downloads(call.log) = 0
  /\ savedMkcert = pre.saved
  /\ version = pre.version

\* C13: when init() finds no binary and the source type is 'local' it asks
\* the source and does nothing further: no download, the managed binary and
\* the recorded version unchanged, normal return.
C13_LocalSourceNoDownload ==
  (call.op = "init" /\ getMkcertBinary(pre) = NoBinary /\ sourceType = "local") =>
    /\ call.log = <<"source.getSourceInfo">>
    /\ BinaryUntouched
    /\ call.res = NoErr

C13_Witness ==
  /\ call.op = "init" /\ sourceType = "local"
  /\ getMkcertBinary(pre) = NoBinary
  /\ localMkcert = "unset"
  /\ pre.version # NoVersion
  /\ call.res = NoErr

\* C14: when init() finds a binary and auto-upgrade is not enabled it asks
\* the source nothing, downloads nothing and leaves the binary and the
\* recorded version unchanged; the recorded version is written (the upgrade
\* flow has run) only when a binary was found and auto-upgrade is enabled.
C14_NoUpgradeWithoutAutoUpgrade ==
  call.op = "init" =>
    /\ (getMkcertBinary(pre) # NoBinary /\ ~autoUpgrade) =>
         /\ call.log = <<>>
         /\ BinaryUntouched
         /\ call.res = NoErr
    /\ Has(call.log, "version.update") =>
         getMkcertBinary(pre) # NoBinary /\ autoUpgrade

C14_Witness ==
  /\ call.op = "init"
  /\ getMkcertBinary(pre) = "savedMkcert" /\ ~autoUpgrade
  /\ call.src # NoInfo /\ call.src # pre.saved
  /\ sourceType = "github"

\* C15: init() attempts at most one download; when the download fails the
\* call ends with the download's error, having attempted it once, and the
\* recorded version is what it was.
C15_DownloadFailurePropagates ==
  call.op = "init" =>
    /\ Downloads(call.log) <= 1
    /\ Has(call.log, "download.fail") =>
         /\ call.res = "download"
         /\ call.log[Len(call.log)] = "download.fail"
         /\ version = pre.version

C15_Witness ==
  /\ call.op = "init" /\ autoUpgrade
  /\ getMkcertBinary(pre) # NoBinary
  /\ pre.version # NoVersion
  /\ call.res = "download"
  /\ savedMkcert # pre.saved

\* C17: after init() returns normally with a source other than 'local', the
\* binary resolution regenerate uses returns an existing binary, whatever the
\* options.
C17_BinaryReadyAfterInit ==
  (call.op = "init" /\ call.res = NoErr /\ sourceType # "local") =>
    getMkcertBinary(Machine) # NoBinary

\* C19: when init() returns normally after downloading a binary to the
\* managed path, the version recorded in Config is the source-reported
\* version of that binary.
C19_VersionOfDownloadedBinary ==
  (call.op = "init" /\ call.res = NoErr /\ Has(call.log, "download.ok")) =>
    /\ savedMkcert = call.src
    /\ version = call.src

====
